---- MODULE Spec2Model ----
(***************************************************************************)
(* A model of file_organizer: the recipe execution engine                  *)
(* (src/file_organizer/mod.rs) and the recipe file persistence            *)
(* (src/file_organizer/settings.rs).                                       *)
(*                                                                         *)
(* Text is modelled as sequences of one-character strings, so that         *)
(* extension extraction, lower-casing, date formatting and date parsing    *)
(* are computed as the code computes them.  A path is a sequence of        *)
(* components, each component a text.  Instants are counted in ticks,      *)
(* TicksPerDay ticks to a UTC day; dates are proleptic Gregorian.          *)
(***************************************************************************)
EXTENDS Integers, Sequences, FiniteSets, TLC

\* ------------------------------------------------------------------ bounds

\* resolution of the clock: ticks per UTC day
TicksPerDay == 2
\* the clock stops advancing MaxTicks ticks after the first instant
MaxTicks == 1
\* largest number of entries of a source directory at the start
MaxEntries == 2
\* largest number of recipes in the recipe file
MaxRecipes == 2
\* number of process invocations modelled
MaxPasses == 2

\* ------------------------------------------------------------------ text

DigitChars == <<"0", "1", "2", "3", "4", "5", "6", "7", "8", "9">>

UpperChars == <<"A", "B", "C", "D", "E", "F", "G", "H", "I", "J", "K", "L", "M",
                "N", "O", "P", "Q", "R", "S", "T", "U", "V", "W", "X", "Y", "Z">>

LowerChars == <<"a", "b", "c", "d", "e", "f", "g", "h", "i", "j", "k", "l", "m",
                "n", "o", "p", "q", "r", "s", "t", "u", "v", "w", "x", "y", "z">>

\* the characters of the model in byte order
ByteOrder == <<"%", "-", ".">> \o DigitChars \o UpperChars \o LowerChars

IndexIn(seq, c) == CHOOSE k \in 1..Len(seq) : seq[k] = c

IsIn(seq, c) == \E k \in 1..Len(seq) : seq[k] = c

\* char::to_lowercase
CharToLower(c) == IF IsIn(UpperChars, c) THEN LowerChars[IndexIn(UpperChars, c)] ELSE c

\* str::to_lowercase
ToLowercase(s) == [k \in 1..Len(s) |-> CharToLower(s[k])]

ByteRank(c) == IndexIn(ByteOrder, c)

\* Ord for byte strings: lexicographic, a proper prefix first
RECURSIVE TextLess(_, _)
TextLess(s, t) ==
    IF s = <<>> THEN t # <<>>
    ELSE IF t = <<>> THEN FALSE
    ELSE IF s[1] # t[1] THEN ByteRank(s[1]) < ByteRank(t[1])
    ELSE TextLess(Tail(s), Tail(t))

\* Ord for Path: component by component
RECURSIVE PathLess(_, _)
PathLess(p, q) ==
    IF p = <<>> THEN q # <<>>
    ELSE IF q = <<>> THEN FALSE
    ELSE IF p[1] # q[1] THEN TextLess(p[1], q[1])
    ELSE PathLess(Tail(p), Tail(q))

\* str::starts_with(".")
StartsWithDot(s) == Len(s) > 0 /\ s[1] = "."

\* Option<T>: None is the empty sequence, Some(x) the sequence of x alone
NoneOpt == <<>>

Some(x) == <<x>>

\* Path::extension: the text after the last "." of the file name; None when the
\* name has no "." or its only "." is the first character
Extension(name) ==
    LET dots == {k \in 1..Len(name) : name[k] = "."}
    IN  IF dots = {} THEN NoneOpt
        ELSE LET last == CHOOSE k \in dots : \A j \in dots : j <= k
             IN  IF last = 1 THEN NoneOpt ELSE Some(SubSeq(name, last + 1, Len(name)))

\* ------------------------------------------------------------------ dates

IsLeap(y) == (y % 4 = 0 /\ y % 100 # 0) \/ y % 400 = 0

DaysInMonth(y, m) ==
    IF m = 2 THEN (IF IsLeap(y) THEN 29 ELSE 28)
    ELSE IF m \in {4, 6, 9, 11} THEN 30 ELSE 31

\* day number since 1970-01-01 of a civil date
DaysFromCivil(y0, m, d) ==
    LET y   == IF m <= 2 THEN y0 - 1 ELSE y0
        era == y \div 400
        yoe == y - era * 400
        mp  == IF m > 2 THEN m - 3 ELSE m + 9
        doy == (153 * mp + 2) \div 5 + d - 1
        doe == yoe * 365 + yoe \div 4 - yoe \div 100 + doy
    IN  era * 146097 + doe - 719468

\* civil date of a day number since 1970-01-01, by the year of the era (yoe),
\* the day of the year counted from 1 March (doy) and its month (mp)
CivilOfMonth(y, doy, mp) ==
    [year  |-> y + (IF mp >= 10 THEN 1 ELSE 0),
     month |-> IF mp < 10 THEN mp + 3 ELSE mp - 9,
     day   |-> doy - (153 * mp + 2) \div 5 + 1]

CivilOfDay(y, doy) == CivilOfMonth(y, doy, (5 * doy + 2) \div 153)

CivilOfYear(era, doe, yoe) ==
    CivilOfDay(yoe + era * 400, doe - (365 * yoe + yoe \div 4 - yoe \div 100))

CivilOfEra(era, doe) ==
    CivilOfYear(era, doe,
                (doe - doe \div 1460 + doe \div 36524 - doe \div 146096) \div 365)

CivilFromDays(z0) == CivilOfEra((z0 + 719468) \div 146097, (z0 + 719468) % 146097)

\* the UTC day of an instant
DayOf(t) == t \div TicksPerDay

Digit(n) == DigitChars[n + 1]

Pad2(n) == <<Digit((n \div 10) % 10), Digit(n % 10)>>

Pad4(n) == <<Digit((n \div 1000) % 10), Digit((n \div 100) % 10)>> \o Pad2(n)

\* DateTime::format: %Y, %m and %d are rendered, any other character is copied
RECURSIVE FormatCivil(_, _)
FormatCivil(c, fmt) ==
    IF fmt = <<>> THEN <<>>
    ELSE IF fmt[1] = "%" /\ Len(fmt) >= 2
    THEN (CASE fmt[2] = "Y" -> Pad4(c.year)
            [] fmt[2] = "m" -> Pad2(c.month)
            [] fmt[2] = "d" -> Pad2(c.day)
            [] OTHER -> <<fmt[1], fmt[2]>>)
         \o FormatCivil(c, SubSeq(fmt, 3, Len(fmt)))
    ELSE <<fmt[1]>> \o FormatCivil(c, Tail(fmt))

FormatDate(t, fmt) == FormatCivil(CivilFromDays(DayOf(t)), fmt)

YmdFormat == <<"%", "Y", "-", "%", "m", "-", "%", "d">>

EpochDate == <<"1", "9", "7", "0", "-", "0", "1", "-", "0", "1">>

IsDigit(c) == IsIn(DigitChars, c)

DigitVal(c) == IndexIn(DigitChars, c) - 1

RECURSIVE NumVal(_)
NumVal(s) == IF s = <<>> THEN 0 ELSE NumVal(SubSeq(s, 1, Len(s) - 1)) * 10 + DigitVal(s[Len(s)])

\* DateTime::parse_from_str of "<text> 00:00:00 +0000" with "%Y-%m-%d %H:%M:%S %z":
\* the instant of 00:00:00 UTC of the date, or a parse error
MidnightOf(y, m, d) ==
    IF m \in 1..12 /\ d >= 1 /\ d <= DaysInMonth(y, m)
    THEN [ok |-> TRUE, instant |-> DaysFromCivil(y, m, d) * TicksPerDay]
    ELSE [ok |-> FALSE, instant |-> 0]

ParseDate(s) ==
    IF /\ Len(s) = 10
       /\ s[5] = "-" /\ s[8] = "-"
       /\ \A k \in {1, 2, 3, 4, 6, 7, 9, 10} : IsDigit(s[k])
    THEN MidnightOf(NumVal(SubSeq(s, 1, 4)), NumVal(SubSeq(s, 6, 7)),
                    NumVal(SubSeq(s, 9, 10)))
    ELSE [ok |-> FALSE, instant |-> 0]

\* ------------------------------------------------------------------ file system

\* A file system is [dirs, files, ro]: the set of directory paths, the regular
\* files (a function from path to [mtime, ctime, data]) and the directories in
\* which no entry can be created or removed.

\* the platform cannot report the creation time of the file
NoTime == 0 - 1

Parent(p) == SubSeq(p, 1, Len(p) - 1)

\* Path::file_name
FileName(p) == p[Len(p)]

\* Path::join of one component
Join(p, name) == Append(p, name)

\* Path::is_dir
IsDir(f, p) == p \in f.dirs

\* Path::is_file
IsFile(f, p) == p \in DOMAIN f.files

\* Path::exists
Exists(f, p) == IsDir(f, p) \/ IsFile(f, p)

\* fs::read_dir: the entries of a directory
ReadDir(f, d) == {p \in f.dirs \cup DOMAIN f.files : Len(p) = Len(d) + 1 /\ Parent(p) = d}

\* fs::create_dir_all: every missing ancestor is created, an existing
\* directory is a success, a regular file on the way or a read-only parent an error
CreateDirIn(parent, p) ==
    IF ~parent.ok \/ Parent(p) \in parent.fs.ro THEN [ok |-> FALSE, fs |-> parent.fs]
    ELSE [ok |-> TRUE, fs |-> [parent.fs EXCEPT !.dirs = @ \cup {p}]]

RECURSIVE CreateDirAll(_, _)
CreateDirAll(f, p) ==
    IF IsDir(f, p) THEN [ok |-> TRUE, fs |-> f]
    ELSE IF IsFile(f, p) \/ p = <<>> THEN [ok |-> FALSE, fs |-> f]
    ELSE CreateDirIn(CreateDirAll(f, Parent(p)), p)

\* fs::rename of a regular file: the file keeps its times; an existing
\* regular file at the target is replaced
Rename(f, from, to) ==
    IF /\ IsFile(f, from) /\ IsDir(f, Parent(to)) /\ ~IsDir(f, to)
       /\ Parent(from) \notin f.ro /\ Parent(to) \notin f.ro
    THEN [ok |-> TRUE,
          fs |-> [f EXCEPT !.files =
                     [p \in (DOMAIN f.files \ {from}) \cup {to} |->
                         IF p = to THEN f.files[from] ELSE f.files[p]]]]
    ELSE [ok |-> FALSE, fs |-> f]

\* fs::copy: the target gets the content of the source and the time of the copy
Copy(f, from, to, now) ==
    IF /\ IsFile(f, from) /\ IsDir(f, Parent(to)) /\ ~IsDir(f, to)
       /\ Parent(to) \notin f.ro
    THEN [ok |-> TRUE,
          fs |-> [f EXCEPT !.files =
                     [p \in DOMAIN f.files \cup {to} |->
                         IF p = to
                         THEN [mtime |-> now,
                               ctime |-> IF IsFile(f, to) THEN f.files[to].ctime
                                         ELSE IF f.files[from].ctime = NoTime THEN NoTime
                                         ELSE now,
                               data  |-> f.files[from].data]
                         ELSE f.files[p]]]]
    ELSE [ok |-> FALSE, fs |-> f]

\* ------------------------------------------------------------------ recipe steps

CreationDate == "CreationDate"

ModificationDate == "ModificationDate"

\* get_date_boundary: 00:00:00 UTC of last_run, of 1970-01-01 without last_run
get_date_boundary(recipe) ==
    ParseDate(IF recipe.last_run = NoneOpt THEN EpochDate ELSE recipe.last_run[1])

\* get_last_modification_date
get_last_modification_date(f, file) == [ok |-> TRUE, date |-> f.files[file].mtime]

\* get_creation_date: an error where the creation time is not available
get_creation_date(f, file) ==
    IF f.files[file].ctime = NoTime THEN [ok |-> FALSE, date |-> 0]
    ELSE [ok |-> TRUE, date |-> f.files[file].ctime]

\* date_to_folder_name
date_to_folder_name(date, format) ==
    IF format # NoneOpt THEN FormatDate(date, format[1]) ELSE <<>>

\* build_dest_folder: destination_folder, then one component per template
RECURSIVE JoinSubfolders(_, _, _)
JoinSubfolders(dest, subfolders, date) ==
    IF subfolders = <<>> THEN dest
    ELSE JoinSubfolders(Join(dest, date_to_folder_name(date, Some(subfolders[1]))),
                        Tail(subfolders), date)

\* a build_dest_folder that forgets the templates
build_dest_folder_flat(recipe, date) == recipe.destination_folder

build_dest_folder(recipe, date) ==
    IF recipe.subfolders # NoneOpt
    THEN JoinSubfolders(recipe.destination_folder, recipe.subfolders[1], date)
    ELSE recipe.destination_folder

\* an is_extension_allowed without the case of the empty list
is_extension_allowed_listed(file, allowed_extensions) ==
    IF allowed_extensions # NoneOpt
    THEN IF Extension(FileName(file)) # NoneOpt
         THEN IsIn(allowed_extensions[1], Extension(FileName(file))[1])
         ELSE FALSE
    ELSE FALSE

\* is_extension_allowed: the extension is compared as it is written in the file name
is_extension_allowed(file, allowed_extensions) ==
    IF allowed_extensions # NoneOpt
    THEN IF allowed_extensions[1] = <<>> THEN TRUE
         ELSE LET ext == Extension(FileName(file))
              IN  IF ext # NoneOpt THEN IsIn(allowed_extensions[1], ext[1]) ELSE FALSE
    ELSE FALSE

\* the reference timestamp run_for_file reads for a regular file
FileDate(f, file, recipe) ==
    IF recipe.date_comparator # NoneOpt /\ recipe.date_comparator[1] = CreationDate
    THEN get_creation_date(f, file)
    ELSE get_last_modification_date(f, file)

\* An outcome of run_for_file is "true" for Ok(true), "false" for Ok(false) and
\* "err" for Err; "go" is a worker between its two steps.

StopFile(outcome, f) == [outcome |-> outcome, fs |-> f, dest_file |-> <<>>]

\* run_for_file, lines 250-255: the destination folder is created when missing
PrepareDest(f, entry, dry_run, dest_folder, made) ==
    IF ~dry_run /\ ~Exists(f, dest_folder)
    THEN IF made.ok
         THEN [outcome |-> "go", fs |-> made.fs,
               dest_file |-> Join(dest_folder, FileName(entry))]
         ELSE StopFile("err", made.fs)
    ELSE [outcome |-> "go", fs |-> f, dest_file |-> Join(dest_folder, FileName(entry))]

PrepareFolder(f, entry, dry_run, dest_folder) ==
    PrepareDest(f, entry, dry_run, dest_folder, CreateDirAll(f, dest_folder))

\* run_for_file, lines 225-248: the reference timestamp against the boundary
PrepareDated(f, entry, recipe, date_boundary, dry_run, file_date) ==
    IF ~file_date.ok THEN StopFile("err", f)
    ELSE IF file_date.date < date_boundary THEN StopFile("false", f)
    ELSE PrepareFolder(f, entry, dry_run, build_dest_folder(recipe, file_date.date))

\* run_for_file up to the creation of the destination folder (lines 216-254):
\* "false" for an entry that does not qualify, "err" for a file-scoped error,
\* "go" with the destination file for an entry to dispatch
PrepareFile(f, entry, recipe, date_boundary, dry_run) ==
    IF ~IsFile(f, entry) THEN StopFile("false", f)
    ELSE IF StartsWithDot(FileName(entry)) THEN StopFile("false", f)
    ELSE IF ~is_extension_allowed(entry, recipe.allowed_extensions)
    THEN StopFile("false", f)
    ELSE PrepareDated(f, entry, recipe, date_boundary, dry_run,
                      FileDate(f, entry, recipe))

Dispatched(f, done) ==
    IF ~done.ok THEN [outcome |-> "err", fs |-> f]
    ELSE [outcome |-> "true", fs |-> done.fs]

\* a dispatch that reports nothing in a dry run
DispatchDrySilent(f, from_file, dest_file, recipe, dry_run, now) ==
    IF dry_run THEN [outcome |-> "false", fs |-> f]
    ELSE IF recipe.move_files THEN Dispatched(f, Rename(f, from_file, dest_file))
    ELSE Dispatched(f, Copy(f, from_file, dest_file, now))

\* a dispatch that moves or copies in a dry run too
DispatchReal(f, from_file, dest_file, recipe, dry_run, now) ==
    IF recipe.move_files THEN Dispatched(f, Rename(f, from_file, dest_file))
    ELSE Dispatched(f, Copy(f, from_file, dest_file, now))

\* run_for_file from the move or copy on (lines 255-289)
Dispatch(f, from_file, dest_file, recipe, dry_run, now) ==
    IF dry_run THEN [outcome |-> "true", fs |-> f]
    ELSE IF recipe.move_files THEN Dispatched(f, Rename(f, from_file, dest_file))
    ELSE Dispatched(f, Copy(f, from_file, dest_file, now))

DispatchPrepared(prep, entry, recipe, dry_run, now) ==
    IF prep.outcome = "go"
    THEN Dispatch(prep.fs, entry, prep.dest_file, recipe, dry_run, now)
    ELSE [outcome |-> prep.outcome, fs |-> prep.fs]

\* run_for_file: Ok(true), Ok(false) or Err, and the file system it leaves
run_for_file(f, entry, recipe, date_boundary, dry_run, now) ==
    DispatchPrepared(PrepareFile(f, entry, recipe, date_boundary, dry_run),
                     entry, recipe, dry_run, now)

\* entries.sort_by_key(|entry| entry.path())
RECURSIVE SortPaths(_)
SortPaths(paths) ==
    IF paths = {} THEN <<>>
    ELSE LET least == CHOOSE p \in paths : \A q \in paths \ {p} : PathLess(p, q)
         IN  <<least>> \o SortPaths(paths \ {least})

Collect(run, one) == [results |-> Append(run.results, one.outcome), fs |-> one.fs]

\* a collect that stops at the first entry that ends in an error
RECURSIVE MapEntriesHalting(_, _, _, _, _, _)
MapEntriesHalting(run, entries, recipe, date_boundary, dry_run, now) ==
    IF entries = <<>> THEN run
    ELSE IF run.results # <<>> /\ run.results[Len(run.results)] = "err" THEN run
    ELSE MapEntriesHalting(Collect(run, run_for_file(run.fs, entries[1], recipe,
                                                     date_boundary, dry_run, now)),
                           Tail(entries), recipe, date_boundary, dry_run, now)

\* entries.iter().map(run_for_file).collect(): one outcome per entry, in order
RECURSIVE MapEntries(_, _, _, _, _, _)
MapEntries(run, entries, recipe, date_boundary, dry_run, now) ==
    IF entries = <<>> THEN run
    ELSE MapEntries(Collect(run, run_for_file(run.fs, entries[1], recipe,
                                              date_boundary, dry_run, now)),
                    Tail(entries), recipe, date_boundary, dry_run, now)

\* run_recipe_iterative
run_recipe_iterative(f, recipe, date_boundary, dry_run, now) ==
    MapEntries([results |-> <<>>, fs |-> f],
               SortPaths(ReadDir(f, recipe.source_folder)),
               recipe, date_boundary, dry_run, now)

\* the statistics run_recipe computes from the collected outcomes (lines 134-143)
FilesProcessed(results) == Len(results)

FilesMatched(results) == Cardinality({k \in 1..Len(results) : results[k] = "true"})

\* run_recipe fails for the whole recipe (lines 110-127)
RecipeFatal(f, recipe) ==
    \/ ~IsDir(f, recipe.source_folder)
    \/ ~IsDir(f, recipe.destination_folder)
    \/ ~get_date_boundary(recipe).ok

\* ------------------------------------------------------------------ state

VARIABLES
    fs,           \* the file system
    disk,         \* the recipe file: [recs, complete]; complete is FALSE while
                  \* the file holds less than one whole JSON array
    now,          \* the clock (Utc::now)
    pass,         \* number of process invocations started
    pc,           \* "off", "run" (in the loop of run), "scan" (workers of
                  \* run_recipe_parallel), "created" (in save, file created)
    outcome,      \* how the last process ended
    settings,     \* FileOrganizer.settings.recipes
    is_dry_run,   \* FileOrganizer.is_dry_run
    is_iterative, \* FileOrganizer.is_iterative
    i,            \* index of the next recipe of the loop of run
    attempted,    \* the recipes run_recipe was called for, in order
    entries,      \* run_recipe_parallel: the enumerated entries
    results,      \* run_recipe_parallel: the outcome slot of each entry
    dests,        \* run_recipe_parallel: dest_file of a worker between its steps
    snap,         \* the file system and instant at the enumeration
    last,         \* the last recipe run that returned its statistics
    stamped_at,   \* the instant run read to stamp the recipes, 0 before
    loaded,       \* the recipes as load_from_file returned them to this process
    prior         \* the flag and the end of the process before this one

vars == <<fs, disk, now, pass, pc, outcome, settings, is_dry_run, is_iterative,
          i, attempted, entries, results, dests, snap, last, stamped_at,
          loaded, prior>>

\* ------------------------------------------------------------------ inputs

InDir == << <<"i", "n">> >>

OutDir == << <<"o", "u", "t">> >>

\* a path that does not exist
GoneDir == << <<"g", "o", "n", "e">> >>

AJpg == <<"a", ".", "j", "p", "g">>

BJpgUpper == <<"B", ".", "J", "P", "G">>

CPng == <<"c", ".", "p", "n", "g">>

HiddenJpg == <<".", "h", ".", "j", "p", "g">>

NoExtName == <<"n", "o", "t", "e", "s">>

SubDirName == <<"s", "u", "b">>

\* names the qualifier tells apart by their first character and their extension
FileNames == {AJpg, BJpgUpper, HiddenJpg, NoExtName}

\* 00:00:00 UTC of 2024-01-01
Midnight == DaysFromCivil(2024, 1, 1) * TicksPerDay

\* the instant of the first process start
FirstNow == Midnight + 1

Today == FormatDate(Midnight, YmdFormat)

BadDate == <<"2", "0", "2", "4", "-", "1", "3", "-", "0", "1">>

TplYear == <<"%", "Y">>

TplMonthDay == <<"%", "m", "-", "%", "d">>

JpgLower == <<"j", "p", "g">>

JpgUpper == <<"J", "P", "G">>

MakeRecipe(src, dst, cmp, sub, ext, mv, lr) ==
    [source_folder |-> src, destination_folder |-> dst, date_comparator |-> cmp,
     subfolders |-> sub, allowed_extensions |-> ext, move_files |-> mv, last_run |-> lr]

\* recipes never run before that pass the validation of run_recipe: two
\* templates with either comparator, extension list and mode
DispatchRecipes ==
    {MakeRecipe(InDir, OutDir, Some(cmp), Some(<<TplYear, TplMonthDay>>), ext, mv, NoneOpt) :
        cmp \in {ModificationDate, CreationDate},
        ext \in {Some(<<>>), Some(<<JpgLower>>)},
        mv  \in BOOLEAN}

\* recipes without template: subfolders absent, and present but empty
FlatRecipes ==
    {MakeRecipe(InDir, OutDir, Some(ModificationDate), NoneOpt, Some(<<>>), FALSE, NoneOpt),
     MakeRecipe(InDir, OutDir, Some(CreationDate), Some(<<>>), Some(<<JpgLower>>), TRUE, NoneOpt)}

\* recipes that pass the validation of run_recipe: every extension list, with
\* and without watermark
QualifierRecipes ==
    {MakeRecipe(InDir, OutDir, NoneOpt, Some(<<>>), ext, TRUE, lr) :
        ext \in {NoneOpt, Some(<<>>), Some(<<JpgLower>>), Some(<<JpgUpper>>)},
        lr  \in {NoneOpt, Some(Today)}}

\* recipes that pass the validation of run_recipe: copy and move, with and
\* without watermark
EngineRecipes ==
    {MakeRecipe(InDir, OutDir, NoneOpt, Some(<<TplYear>>), Some(<<JpgLower>>), FALSE, NoneOpt),
     MakeRecipe(InDir, OutDir, NoneOpt, Some(<<TplYear>>), Some(<<JpgLower>>), TRUE, NoneOpt),
     MakeRecipe(InDir, OutDir, NoneOpt, Some(<<TplYear>>), Some(<<JpgLower>>), TRUE, Some(Today))}

\* a recipe whose source folder is missing
NoSourceRecipe == MakeRecipe(GoneDir, OutDir, NoneOpt, NoneOpt, Some(<<>>), TRUE, NoneOpt)

\* recipes run_recipe fails for: no source folder, no destination folder, a
\* last_run that is no date
FatalRecipes ==
    {NoSourceRecipe,
     MakeRecipe(InDir, GoneDir, NoneOpt, NoneOpt, Some(<<>>), TRUE, NoneOpt),
     MakeRecipe(InDir, OutDir, NoneOpt, NoneOpt, Some(<<>>), TRUE, Some(BadDate))}

\* a file last modified at the last instant of 2023-12-31 whose creation time
\* the platform cannot report, and a file created at that instant and modified
\* at 00:00:00 of 2024-01-01
FileRecs ==
    {[mtime |-> Midnight - 1, ctime |-> NoTime, data |-> 0],
     [mtime |-> Midnight, ctime |-> Midnight - 1, data |-> 0]}

\* the file systems with the names of `names` as regular files of InDir, and
\* a subdirectory of InDir when `sub` holds
SnapshotsOf(names, sub, ro) ==
    {[dirs  |-> {InDir, OutDir} \cup (IF sub THEN {Join(InDir, SubDirName)} ELSE {}),
      files |-> [p \in {Join(InDir, n) : n \in names} |->
                    [recs[FileName(p)] EXCEPT !.data = FileName(p)]],
      ro    |-> ro] : recs \in [names -> FileRecs]}

\* the file systems whose source directory has at most MaxEntries entries
\* named in `universe`; the directories of one of `ros` are read-only
SnapshotsFrom(universe, ros) ==
    UNION {SnapshotsOf(names \ {SubDirName}, SubDirName \in names, ro) :
              names \in {ns \in SUBSET universe : Cardinality(ns) <= MaxEntries},
              ro \in ros}

NoRun ==
    [pass |-> 0, index |-> 0, recipe |-> MakeRecipe(<<>>, <<>>, <<>>, <<>>, <<>>, FALSE, <<>>),
     date_boundary |-> 0, dry |-> FALSE, iterative |-> FALSE,
     snap |-> [fs |-> [dirs |-> {}, files |-> <<>>, ro |-> {}], at |-> 0],
     entries |-> <<>>, results |-> <<>>]

InitWith(recipeLists, snapshots) ==
    /\ \E recs \in recipeLists : disk = [recs |-> recs, complete |-> TRUE]
    /\ fs \in snapshots
    /\ now = FirstNow
    /\ pass = 0
    /\ pc = "off"
    /\ outcome = "none"
    /\ settings = <<>>
    /\ is_dry_run = FALSE
    /\ is_iterative = FALSE
    /\ i = 0
    /\ attempted = <<>>
    /\ entries = <<>>
    /\ results = <<>>
    /\ dests = <<>>
    /\ snap = NoRun.snap
    /\ last = NoRun
    /\ stamped_at = 0
    /\ loaded = <<>>
    /\ prior = [dry |-> FALSE, outcome |-> "none"]

\* ------------------------------------------------------------------ actions

\* FileOrganizer::new lowercases every allowed extension
LowercaseRecipe(recipe) ==
    [recipe EXCEPT !.allowed_extensions =
        IF @ = NoneOpt THEN @
        ELSE Some([k \in 1..Len(@[1]) |-> ToLowercase(@[1][k])])]

\* Settings::load_from_file: a file that is not one whole JSON array is an error
load_from_file(file) ==
    IF file.complete THEN [ok |-> TRUE, recipes |-> file.recs]
    ELSE [ok |-> FALSE, recipes |-> <<>>]

\* main: the process starts with its two flags and constructs the FileOrganizer
New(dry_run, iterative) ==
    /\ pc = "off"
    /\ pass < MaxPasses
    /\ pass' = pass + 1
    /\ IF load_from_file(disk).ok
       THEN /\ settings' = [k \in 1..Len(disk.recs) |-> LowercaseRecipe(disk.recs[k])]
            /\ pc' = "run"
            /\ outcome' = "running"
            /\ i' = 1
       ELSE /\ settings' = <<>>
            /\ pc' = "off"
            /\ outcome' = "loadfail"
            /\ i' = 0
    /\ is_dry_run' = dry_run
    /\ is_iterative' = iterative
    /\ attempted' = <<>>
    /\ last' = NoRun
    /\ loaded' = load_from_file(disk).recipes
    /\ prior' = [dry |-> is_dry_run, outcome |-> outcome]
    /\ UNCHANGED <<fs, disk, now, entries, results, dests, snap, stamped_at>>

\* run_recipe returns an error and the ? of run returns it from run
RunRecipeFatal ==
    /\ pc = "run"
    /\ i <= Len(settings)
    /\ RecipeFatal(fs, settings[i])
    /\ attempted' = Append(attempted, i)
    /\ pc' = "off"
    /\ outcome' = "fatal"
    /\ UNCHANGED <<stamped_at, loaded, prior, fs, disk, now, pass, settings, is_dry_run, is_iterative, i,
                   entries, results, dests, snap, last>>

IterativeReturns(recipe, date_boundary, run) ==
    /\ fs' = run.fs
    /\ last' = [pass |-> pass, index |-> i, recipe |-> recipe,
                date_boundary |-> date_boundary, dry |-> is_dry_run,
                iterative |-> TRUE, snap |-> [fs |-> fs, at |-> now],
                entries |-> SortPaths(ReadDir(fs, recipe.source_folder)),
                results |-> run.results]

IterativeDone(recipe, date_boundary) ==
    IterativeReturns(recipe, date_boundary,
                     run_recipe_iterative(fs, recipe, date_boundary, is_dry_run, now))

\* run_recipe with the iterative strategy, and the step of the loop of run
RunRecipeIterative ==
    /\ pc = "run"
    /\ i <= Len(settings)
    /\ is_iterative
    /\ ~RecipeFatal(fs, settings[i])
    /\ IterativeDone(settings[i], get_date_boundary(settings[i]).instant)
    /\ attempted' = Append(attempted, i)
    /\ i' = i + 1
    /\ UNCHANGED <<stamped_at, loaded, prior, disk, now, pass, pc, outcome, settings, is_dry_run, is_iterative,
                   entries, results, dests, snap>>

\* the orders fs::read_dir can return the entries in
Orders(paths) ==
    {order \in [1..Cardinality(paths) -> paths] :
        \A a, b \in 1..Cardinality(paths) : a # b => order[a] # order[b]}

\* run_recipe with the parallel strategy: validation, boundary and enumeration
ParStart ==
    /\ pc = "run"
    /\ i <= Len(settings)
    /\ ~is_iterative
    /\ ~RecipeFatal(fs, settings[i])
    /\ \E order \in Orders(ReadDir(fs, settings[i].source_folder)) :
          /\ entries' = order
          /\ results' = [k \in 1..Len(order) |-> "pending"]
          /\ dests' = [k \in 1..Len(order) |-> <<>>]
    /\ snap' = [fs |-> fs, at |-> now]
    /\ attempted' = Append(attempted, i)
    /\ pc' = "scan"
    /\ UNCHANGED <<stamped_at, loaded, prior, fs, disk, now, pass, outcome, settings, is_dry_run, is_iterative,
                   i, last>>

Prepared(k, prep) ==
    /\ fs' = prep.fs
    /\ results' = [results EXCEPT ![k] = prep.outcome]
    /\ dests' = [dests EXCEPT ![k] = prep.dest_file]

WorkerDone(k, done) ==
    /\ fs' = done.fs
    /\ results' = [results EXCEPT ![k] = done.outcome]

\* a worker of par_iter runs run_for_file for entry k up to the destination folder
ParPrepare(k) ==
    /\ pc = "scan"
    /\ results[k] = "pending"
    /\ Prepared(k, PrepareFile(fs, entries[k], settings[i],
                               get_date_boundary(settings[i]).instant, is_dry_run))
    /\ UNCHANGED <<stamped_at, loaded, prior, disk, now, pass, pc, outcome, settings, is_dry_run, is_iterative,
                   i, attempted, entries, snap, last>>

\* the worker moves or copies entry k
ParDispatch(k) ==
    /\ pc = "scan"
    /\ results[k] = "go"
    /\ WorkerDone(k, Dispatch(fs, entries[k], dests[k], settings[i], is_dry_run, now))
    /\ dests' = [dests EXCEPT ![k] = <<>>]
    /\ UNCHANGED <<stamped_at, loaded, prior, disk, now, pass, pc, outcome, settings, is_dry_run, is_iterative,
                   i, attempted, entries, snap, last>>

\* a collect that returns as soon as one worker is done
ParJoinEarly ==
    /\ pc = "scan"
    /\ \E k \in 1..Len(results) : results[k] \in {"true", "false", "err"}
    /\ last' = [pass |-> pass, index |-> i, recipe |-> settings[i],
                date_boundary |-> get_date_boundary(settings[i]).instant,
                dry |-> is_dry_run, iterative |-> FALSE, snap |-> snap,
                entries |-> entries, results |-> results]
    /\ i' = i + 1
    /\ pc' = "run"
    /\ entries' = <<>>
    /\ results' = <<>>
    /\ dests' = <<>>
    /\ snap' = NoRun.snap
    /\ UNCHANGED <<stamped_at, loaded, prior, fs, disk, now, pass, outcome, settings,
                   is_dry_run, is_iterative, attempted>>

\* collect returns once every worker is done; run_recipe computes its statistics
ParJoin ==
    /\ pc = "scan"
    /\ \A k \in 1..Len(results) : results[k] \in {"true", "false", "err"}
    /\ last' = [pass |-> pass, index |-> i, recipe |-> settings[i],
                date_boundary |-> get_date_boundary(settings[i]).instant,
                dry |-> is_dry_run, iterative |-> FALSE, snap |-> snap,
                entries |-> entries, results |-> results]
    /\ i' = i + 1
    /\ pc' = "run"
    /\ entries' = <<>>
    /\ results' = <<>>
    /\ dests' = <<>>
    /\ snap' = NoRun.snap
    /\ UNCHANGED <<stamped_at, loaded, prior, fs, disk, now, pass, outcome, settings, is_dry_run, is_iterative,
                   attempted>>

\* run after the loop, dry run: nothing is stamped or saved
FinishDryRun ==
    /\ pc = "run"
    /\ i > Len(settings)
    /\ is_dry_run
    /\ pc' = "off"
    /\ outcome' = "ok"
    /\ UNCHANGED <<stamped_at, loaded, prior, fs, disk, now, pass, settings, is_dry_run, is_iterative, i,
                   attempted, entries, results, dests, snap, last>>

\* a stamping that reaches the first recipe only
StampedFirst(recipes, t) ==
    [k \in 1..Len(recipes) |->
        IF k = 1 THEN [recipes[k] EXCEPT !.last_run = Some(FormatDate(t, YmdFormat))]
        ELSE recipes[k]]

\* run after the loop (lines 89-95): every recipe gets the date of now
Stamped(recipes, t) ==
    [k \in 1..Len(recipes) |->
        [recipes[k] EXCEPT !.last_run = Some(FormatDate(t, YmdFormat))]]

\* run stamps the recipes; Settings::save creates (truncates) the recipe file
StampAndCreate ==
    /\ pc = "run"
    /\ i > Len(settings)
    /\ ~is_dry_run
    /\ settings' = Stamped(settings, now)
    /\ stamped_at' = now
    /\ disk' = [recs |-> <<>>, complete |-> FALSE]
    /\ pc' = "created"
    /\ UNCHANGED <<fs, now, pass, outcome, is_dry_run, is_iterative, i, attempted,
                   entries, results, dests, snap, last, loaded, prior>>

\* run stamps the recipes; File::create fails and save returns the error
StampCreateFails ==
    /\ pc = "run"
    /\ i > Len(settings)
    /\ ~is_dry_run
    /\ settings' = Stamped(settings, now)
    /\ stamped_at' = now
    /\ pc' = "off"
    /\ outcome' = "savefail"
    /\ UNCHANGED <<fs, disk, now, pass, is_dry_run, is_iterative, i, attempted,
                   entries, results, dests, snap, last, loaded, prior>>

\* Settings::save writes the serialized recipes
SaveWrite ==
    /\ pc = "created"
    /\ disk' = [recs |-> settings, complete |-> TRUE]
    /\ pc' = "off"
    /\ outcome' = "ok"
    /\ UNCHANGED <<stamped_at, loaded, prior, fs, now, pass, settings, is_dry_run, is_iterative, i, attempted,
                   entries, results, dests, snap, last>>

\* the write fails after n whole recipes reached the file
SaveWriteFails(n) ==
    /\ pc = "created"
    /\ disk' = [recs |-> SubSeq(settings, 1, n), complete |-> FALSE]
    /\ pc' = "off"
    /\ outcome' = "savefail"
    /\ UNCHANGED <<stamped_at, loaded, prior, fs, now, pass, settings, is_dry_run, is_iterative, i, attempted,
                   entries, results, dests, snap, last>>

\* the process is terminated from outside while save is between File::create
\* and the write
Kill ==
    /\ pc = "created"
    /\ pc' = "off"
    /\ outcome' = "killed"
    /\ entries' = <<>>
    /\ results' = <<>>
    /\ dests' = <<>>
    /\ snap' = NoRun.snap
    /\ UNCHANGED <<stamped_at, loaded, prior, fs, disk, now, pass, settings, is_dry_run, is_iterative, i,
                   attempted, last>>

\* time passes between the steps of run and between two processes
Tick ==
    /\ now < FirstNow + MaxTicks
    /\ pc \in {"off", "run"}
    /\ now' = now + 1
    /\ UNCHANGED <<stamped_at, loaded, prior, fs, disk, pass, pc, outcome, settings, is_dry_run, is_iterative,
                   i, attempted, entries, results, dests, snap, last>>

Next ==
    \/ \E dry_run \in BOOLEAN, iterative \in BOOLEAN : New(dry_run, iterative)
    \/ RunRecipeFatal
    \/ RunRecipeIterative
    \/ ParStart
    \/ \E k \in 1..Len(results) : ParPrepare(k)
    \/ \E k \in 1..Len(results) : ParDispatch(k)
    \/ ParJoin
    \/ FinishDryRun
    \/ StampAndCreate
    \/ StampCreateFails
    \/ SaveWrite
    \/ \E n \in 0..(Len(settings) - 1) : SaveWriteFails(n)
    \/ Kill
    \/ Tick

\* lists of one to MaxRecipes recipes
RECURSIVE ListsOf(_, _)
ListsOf(recipes, n) ==
    IF n = 0 THEN {<<>>}
    ELSE {Append(list, r) : list \in ListsOf(recipes, n - 1), r \in recipes}

RecipeLists(recipes) == UNION {ListsOf(recipes, n) : n \in 1..MaxRecipes}

\* one recipe of every dispatch kind over a source directory of plain entries,
\* with a destination that is writable or read-only
Init ==
    InitWith({<<r>> : r \in DispatchRecipes \cup FlatRecipes \cup {NoSourceRecipe}},
             SnapshotsFrom({AJpg, CPng, SubDirName}, {{}, {OutDir}}))

Spec == Init /\ [][Next]_vars

\* one recipe of every extension list over names of every kind
InitQualifier ==
    InitWith({<<r>> : r \in QualifierRecipes \cup {NoSourceRecipe}},
             SnapshotsFrom(FileNames, {{}}))

SpecQualifier == InitQualifier /\ [][Next]_vars

\* several recipes, failing ones among them
InitEngine ==
    InitWith(RecipeLists(EngineRecipes \cup FatalRecipes),
             SnapshotsFrom({AJpg, SubDirName}, {{}}))

SpecEngine == InitEngine /\ [][Next]_vars

\* ------------------------------------------------------------------ claims

\* the reference timestamp of a regular file of a snapshot
RefTime(f, p, recipe) ==
    IF recipe.date_comparator = Some(CreationDate) THEN f.files[p].ctime
    ELSE f.files[p].mtime

\* the lowercase form of the extension of the name is a member of the list;
\* an empty list admits every name, an absent list none
ExtensionListed(name, allowed) ==
    /\ allowed # NoneOpt
    /\ \/ allowed[1] = <<>>
       \/ /\ Extension(name) # NoneOpt
          /\ IsIn(allowed[1], ToLowercase(Extension(name)[1]))

\* the qualifier of the specification: a regular file, not hidden, of a listed
\* extension, with a reference timestamp at or after the boundary
Qualifying(f, p, recipe, boundary) ==
    /\ IsFile(f, p)
    /\ ~StartsWithDot(FileName(p))
    /\ ExtensionListed(FileName(p), recipe.allowed_extensions)
    /\ RefTime(f, p, recipe) # NoTime
    /\ RefTime(f, p, recipe) >= boundary

\* destination_folder followed by one rendered component per template
ExpectedFolder(recipe, t) ==
    recipe.destination_folder \o
        (IF recipe.subfolders = NoneOpt THEN <<>>
         ELSE [k \in 1..Len(recipe.subfolders[1]) |->
                  FormatDate(t, recipe.subfolders[1][k])])

\* the directories from `base` down to `path`
Down(base, path) == {SubSeq(path, 1, n) : n \in Len(base)..Len(path)}

\* run_recipe has returned to the loop of run: `last` is the recipe run that
\* ended last and nothing has touched the file system since
Returned == last.pass > 0 /\ pc = "run"

NoError(outcomes) == \A k \in 1..Len(outcomes) : outcomes[k] # "err"

SourceEntries == ReadDir(last.snap.fs, last.recipe.source_folder)

QualifyingEntries ==
    {p \in SourceEntries : Qualifying(last.snap.fs, p, last.recipe, last.date_boundary)}

TargetOf(p) ==
    Join(ExpectedFolder(last.recipe, RefTime(last.snap.fs, p, last.recipe)), FileName(p))

RunEnded == pc = "off" /\ outcome \in {"ok", "fatal", "savefail", "killed"}

\* C2: a recipe-fatal failure aborts its recipe only: when run has ended,
\* run_recipe has been called for every recipe, in declared order
C2_LaterRecipesStillRun ==
    RunEnded => attempted = [k \in 1..Len(settings) |-> k]

StampDate == Some(FormatDate(stamped_at, YmdFormat))

\* C3: after a real pass that ended well, every recipe in memory and in the
\* recipe file carries the one date read at the end of the pass
C3_EveryRecipeStamped ==
    (pc = "off" /\ outcome = "ok" /\ ~is_dry_run) =>
        /\ disk.complete
        /\ disk.recs = settings
        /\ stamped_at <= now
        /\ \A k \in 1..Len(settings) :
              /\ settings[k].last_run = StampDate
              /\ disk.recs[k].last_run = StampDate

\* two recipes, one never run and one run on 2024-01-01, both stamped 2024-01-02
C3_Witness ==
    /\ pc = "off" /\ outcome = "ok" /\ ~is_dry_run
    /\ Len(settings) = 2
    /\ loaded[1].last_run = NoneOpt
    /\ loaded[2].last_run = Some(Today)
    /\ disk.recs[1].last_run = Some(<<"2", "0", "2", "4", "-", "0", "1", "-", "0", "2">>)
    /\ disk.recs[2].last_run = disk.recs[1].last_run

\* C4: at every point the recipe file holds the whole recipe set, with every
\* last_run as it was loaded or every last_run as stamped
C4_RecipeFileWhole ==
    /\ disk.complete
    /\ (pc # "off" \/ RunEnded) =>
          /\ Len(disk.recs) = Len(loaded)
          /\ \/ \A k \in 1..Len(loaded) : disk.recs[k].last_run = loaded[k].last_run
             \/ \A k \in 1..Len(loaded) : disk.recs[k].last_run = StampDate

\* C5: no step of a dry-run pass changes the file system, the recipe file or
\* the recipes in memory
C5_DryRunChangesNothing ==
    [][(is_dry_run /\ pc # "off") => (fs' = fs /\ disk' = disk /\ settings' = settings)]_vars

\* a dry run of the parallel strategy reported a match and left everything
C5_Witness ==
    /\ pc = "off" /\ outcome = "ok" /\ is_dry_run
    /\ last.pass > 0 /\ ~last.iterative
    /\ last.recipe.move_files
    /\ last.recipe.subfolders = Some(<<TplYear, TplMonthDay>>)
    /\ FilesMatched(last.results) > 0
    /\ fs = last.snap.fs
    /\ disk.recs = loaded

\* C6: the real pass that follows a real pass that ended well matches no file
C6_SecondPassMatchesNothing ==
    (Returned /\ last.pass >= 2 /\ ~last.dry /\ ~prior.dry /\ prior.outcome = "ok") =>
        FilesMatched(last.results) = 0

\* the outcome of each entry of a run
Outcomes(es, rs) == {<<es[k], rs[k]>> : k \in 1..Len(es)}

\* run_recipe_iterative on the snapshot of the last run, in the given mode
IterativeOnSnapshot(dry_run) ==
    run_recipe_iterative(last.snap.fs, last.recipe, last.date_boundary, dry_run,
                         last.snap.at)

SameAsIterative(run) ==
    /\ Outcomes(last.entries, last.results)
           = Outcomes(SortPaths(SourceEntries), run.results)
    /\ fs = run.fs
    /\ FilesMatched(last.results) = FilesMatched(run.results)
    /\ FilesProcessed(last.results) = FilesProcessed(run.results)

\* C7: whatever the order of the enumeration and the interleaving of the
\* workers, a parallel run gives every entry the outcome run_recipe_iterative
\* gives it on the same snapshot, leaves the same file system and returns the
\* same files_matched and files_processed
C7_ParallelAsIterative ==
    (Returned /\ ~last.iterative) => SameAsIterative(IterativeOnSnapshot(last.dry))

\* a real parallel run over two qualifying files enumerated in another order
\* than the sorted one
C7_Witness ==
    /\ Returned /\ ~last.iterative /\ ~last.dry
    /\ Len(last.entries) = 2
    /\ last.entries # SortPaths(SourceEntries)
    /\ FilesMatched(last.results) = 2
    /\ fs # last.snap.fs

\* the lowercase form of the extension of the name is the lowercase form of an
\* entry of the list as the recipe file has it
ListedWhateverCase(name, allowed) ==
    /\ allowed # NoneOpt
    /\ Extension(name) # NoneOpt
    /\ \E k \in 1..Len(allowed[1]) :
          ToLowercase(allowed[1][k]) = ToLowercase(Extension(name)[1])

\* C8: a regular file that is not hidden, is at or after the boundary and whose
\* extension is listed, whatever the case, qualifies
C8_ExtensionCaseInsensitive ==
    Returned =>
        \A k \in 1..Len(last.entries) :
            (/\ IsFile(last.snap.fs, last.entries[k])
             /\ ~StartsWithDot(FileName(last.entries[k]))
             /\ ListedWhateverCase(FileName(last.entries[k]),
                                   loaded[last.index].allowed_extensions)
             /\ RefTime(last.snap.fs, last.entries[k], last.recipe) # NoTime
             /\ RefTime(last.snap.fs, last.entries[k], last.recipe) >= last.date_boundary)
            => last.results[k] # "false"

MatchedAlike(run) == FilesMatched(last.results) = FilesMatched(run.results)

\* C10: a dry run and a real run of one recipe on one snapshot report the same
\* files_matched, failing operations or not
C10_DryRunMatchesAsReal ==
    Returned => MatchedAlike(IterativeOnSnapshot(~last.dry))

\* the entries whose real run ends in an error where the dry run reports a match
FailedOperations(real, dry) ==
    {e \in SourceEntries : <<e, "err">> \in real /\ <<e, "true">> \in dry}

MatchedIn(outs) == Cardinality({e \in SourceEntries : <<e, "true">> \in outs})

MatchedButFailures(real, dry) ==
    MatchedIn(dry) = MatchedIn(real) + Cardinality(FailedOperations(real, dry))

OutcomesOfLast == Outcomes(last.entries, last.results)

OutcomesOfOther(run) == Outcomes(SortPaths(SourceEntries), run.results)

\* C10 as amended: the dry run reports the files_matched of the real run plus
\* one for every qualifying file whose real directory creation, copy or move
\* fails; the two counts are equal when no such operation fails
C10_DryRunMatchesRealPlusFailures ==
    Returned =>
        IF last.dry
        THEN MatchedButFailures(OutcomesOfOther(IterativeOnSnapshot(FALSE)), OutcomesOfLast)
        ELSE MatchedButFailures(OutcomesOfLast, OutcomesOfOther(IterativeOnSnapshot(TRUE)))

\* a dry run over two qualifying files and a writable destination
C10_Witness ==
    /\ Returned /\ last.dry
    /\ last.snap.fs.ro = {}
    /\ FilesMatched(last.results) = 2
    /\ FilesMatched(IterativeOnSnapshot(FALSE).results) = 2

\* the outcomes a finished run_for_file returns: Ok(true), Ok(false), Err
FinalOutcomes == {"true", "false", "err"}

\* the entries of a run with the given outcome
EntriesEnding(outs, how) == {k \in 1..Len(outs) : outs[k] = how}

\* C11: when run_recipe returns, under either strategy, every entry of the
\* enumerated directory has exactly one slot and one final outcome, errors of
\* other entries notwithstanding; files_processed is the number of entries,
\* files_matched the number of Ok(true) outcomes, errors and non-matches
\* counting as processed only; while the workers run no entry is missing or
\* twice in the enumeration; and run_recipe fails only for a recipe whose
\* directories or last_run are invalid, never for the error of a file
C11_EveryEntryOneOutcome ==
    /\ Returned =>
          /\ Len(last.entries) = Cardinality(SourceEntries)
          /\ {last.entries[k] : k \in 1..Len(last.entries)} = SourceEntries
          /\ Len(last.results) = Len(last.entries)
          /\ \A k \in 1..Len(last.results) : last.results[k] \in FinalOutcomes
          /\ FilesProcessed(last.results) = Cardinality(SourceEntries)
          /\ FilesMatched(last.results) = Cardinality(EntriesEnding(last.results, "true"))
          /\ FilesProcessed(last.results) =
                 FilesMatched(last.results)
                 + Cardinality(EntriesEnding(last.results, "false"))
                 + Cardinality(EntriesEnding(last.results, "err"))
    /\ pc = "scan" =>
          /\ Len(entries) = Cardinality(ReadDir(snap.fs, settings[i].source_folder))
          /\ {entries[k] : k \in 1..Len(entries)} = ReadDir(snap.fs, settings[i].source_folder)
          /\ Len(results) = Len(entries)
          /\ \A k \in 1..Len(results) : results[k] \in FinalOutcomes \cup {"pending", "go"}
    /\ outcome = "fatal" => RecipeFatal(fs, settings[attempted[Len(attempted)]])

\* a real run over two files compared by creation date: the one without
\* creation time ends in an error, the other is matched all the same
C11_Witness ==
    /\ Returned /\ ~last.dry
    /\ Len(last.entries) = 2
    /\ EntriesEnding(last.results, "err") # {}
    /\ EntriesEnding(last.results, "true") # {}
    /\ FilesProcessed(last.results) = 2
    /\ FilesMatched(last.results) = 1

\* the boundary the next pass derives from the watermark of recipe k
NextBoundary(k) == get_date_boundary(settings[k]).instant

\* C12: once a real pass has stamped its recipes, the boundary the next pass
\* derives from the watermark of any recipe is not later than the instant at
\* which this pass enumerated the source directory of the recipe it ran last
\* (and so of any recipe, the others being enumerated earlier still): a file
\* dated after the enumeration is at or after the boundary
C12_BoundaryNotAfterEnumeration ==
    (pc = "created" /\ last.pass > 0) =>
        \A k \in 1..Len(settings) : NextBoundary(k) <= last.snap.at

====
